---------------------------- MODULE Spec2Model ----------------------------
(***************************************************************************)
(* ByteHebi: a terminal snake game.                                        *)
(*                                                                         *)
(* The module models                                                       *)
(*   - class Snake   (source/snake.cpp, includes/snake.h),                 *)
(*   - class Fruit   (fruit.h with the respawn template, source/fruit.cpp),*)
(*   - class Game in its Notcurses build (source/game.cpp) and in its      *)
(*     console build (the second half of source/snake.cpp).                *)
(*                                                                         *)
(* Three specifications share the variables:                               *)
(*   Spec       the game: construction, run(), the frame loop, the keys,   *)
(*              the tick, reset;                                           *)
(*   SpecSnake  a Snake object driven through its public interface;        *)
(*   SpecFruit  a Fruit object, respawn() taken one sampled candidate at   *)
(*              a time.                                                    *)
(***************************************************************************)
EXTENDS Integers, Sequences, FiniteSets, TLC

VARIABLES
    variant,        \* "nc": source/game.cpp, "console": Game of source/snake.cpp
    width, height,  \* Game::width, Game::height (Fruit::width, Fruit::height)
    body, dir,      \* Snake::body (head first), Snake::dir
    fruit,          \* Fruit::pos
    score, highScore,
    over, paused, exitRequested,
    dialogOpen, dialogType, dialogIndex,
    hsFile,         \* the content of highscore.txt
    pc,             \* the position of run() (of the caller, in SpecSnake/SpecFruit)
    tries,          \* SpecFruit: the loop counter of Fruit::respawn
    occupied,       \* SpecFruit: the cells the isOccupied predicate answers true for
    fellBack,       \* history: the respawn that placed the fruit exhausted its attempts
    last            \* history: the last operation, its input and the branch it took

gameVars == <<body, dir, fruit, score, highScore, over, paused, exitRequested,
              dialogOpen, dialogType, dialogIndex, fellBack>>
vars == <<variant, width, height, gameVars, hsFile, pc, tries, occupied, last>>

----------------------------------------------------------------------------
(* Bounds of the exploration *)

\* A run stops being explored once the snake has eaten this many fruits.
MaxFruits == 2
\* SpecSnake: the longest body, and the box |x|,|y| <= MaxCoord bodies stay in.
MaxSnakeLen == 3
MaxCoord == 2

(* Program constants *)
StartLen == 3          \* Game::Game: snake(width / 2, height / 2, 3)
RewardNc == 10         \* game.cpp: score += 10
RewardConsole == 1     \* snake.cpp: score += 1
MaxTries == 1000       \* fruit.h: tries < 1000

\* The boards the game is constructed with: <<width, height>>.
Boards == {<<6, 4>>, <<6, 3>>, <<7, 3>>}
\* The boards of SpecFruit.
FruitBoards == {<<4, 4>>, <<5, 3>>}

Directions == {"Up", "Down", "Left", "Right"}

Pt(px, py) == [x |-> px, y |-> py]

----------------------------------------------------------------------------
(* class Snake *)

\* A constructor that lays the segments out from the tail: the head ends up
\* on the leftmost cell.
NewSnakeTailFirst(startX, startY, initialLength) ==
    [i \in 1..initialLength |-> Pt(startX - (initialLength - i), startY)]

\* Snake::Snake: head at the start, extending to the left.
NewSnake(startX, startY, initialLength) ==
    [i \in 1..initialLength |-> Pt(startX - (i - 1), startY)]

\* A setDirection that has lost its guard.
SetDirectionUnguarded(cur, d) == d

\* Snake::setDirection: the new value of dir.
SetDirection(cur, d) ==
    IF \/ (cur = "Up" /\ d = "Down")
       \/ (cur = "Down" /\ d = "Up")
       \/ (cur = "Left" /\ d = "Right")
       \/ (cur = "Right" /\ d = "Left")
    THEN cur
    ELSE d

\* A nextHead whose step to the right is two cells long.
NextHeadLongRight(b, d) ==
    LET h == b[1] IN
    CASE d = "Up" -> Pt(h.x, h.y - 1)
      [] d = "Down" -> Pt(h.x, h.y + 1)
      [] d = "Left" -> Pt(h.x - 1, h.y)
      [] d = "Right" -> Pt(h.x + 2, h.y)

\* Snake::nextHead
NextHead(b, d) ==
    LET h == b[1] IN
    CASE d = "Up" -> Pt(h.x, h.y - 1)
      [] d = "Down" -> Pt(h.x, h.y + 1)
      [] d = "Left" -> Pt(h.x - 1, h.y)
      [] d = "Right" -> Pt(h.x + 1, h.y)

\* A hitsSelf that lets the head step into the cell the tail is vacating.
HitsSelfButTail(b, next) == \E i \in 1..(Len(b) - 1) : b[i] = next

\* A hitsSelf that looks at the neck only.
HitsSelfNeckOnly(b, next) == Len(b) >= 2 /\ b[2] = next

\* Snake::hitsSelf
HitsSelf(b, next) == \E i \in 1..Len(b) : b[i] = next

\* Snake::contains
Contains(b, p) == \E i \in 1..Len(b) : b[i] = p

\* A move that drops the tail also when growing.
MoveNeverGrows(b, d, grow) == <<NextHead(b, d)>> \o SubSeq(b, 1, Len(b) - 1)

\* Snake::move: the new body.
Move(b, d, grow) ==
    LET newHead == NextHead(b, d)
        pushed == <<newHead>> \o b
    IN IF ~grow THEN SubSeq(pushed, 1, Len(pushed) - 1) ELSE pushed


----------------------------------------------------------------------------
(* class Fruit *)

\* The cells dx(1, width - 2) x dy(1, height - 2) can sample.
Interior(w, h) == {Pt(px, py) : px \in 1..(w - 2), py \in 1..(h - 2)}

\* A fallback onto the corner of the wall ring.
FallbackCellOrigin == Pt(0, 0)

\* The fallback cell of respawn.
FallbackCell == Pt(1, 1)

\* Fruit::respawn as one call: every position the call can end with, and
\* whether it ended by exhausting its attempts. A free sampled cell is taken;
\* the attempts can all fail only if some cell that can be sampled is occupied.
RespawnOutcomes(w, h, occ) ==
    {[pos |-> c, exhausted |-> FALSE] : c \in Interior(w, h) \ occ}
    \cup (IF Interior(w, h) \cap occ # {}
          THEN {[pos |-> FallbackCell, exhausted |-> TRUE]}
          ELSE {})

Cells(b) == {b[i] : i \in 1..Len(b)}

----------------------------------------------------------------------------
(* highscore.txt *)

DigitChars == <<"0", "1", "2", "3", "4", "5", "6", "7", "8", "9">>
IsDigit(c) == \E i \in 1..10 : DigitChars[i] = c
DigitVal(c) == (CHOOSE i \in 1..10 : DigitChars[i] = c) - 1
IsSpace(c) == c \in {" ", "\n", "\t"}

RECURSIVE SkipSpace(_)
SkipSpace(t) == IF t # <<>> /\ IsSpace(Head(t)) THEN SkipSpace(Tail(t)) ELSE t

\* The largest int: operator>> fails on a numeral beyond it.
IntMax == 2147483647
Overflow == 0 - 1

\* The digits of a numeral, most significant first: its magnitude, or Overflow.
RECURSIVE ReadDigits(_, _)
ReadDigits(t, acc) ==
    IF t # <<>> /\ IsDigit(Head(t))
    THEN IF acc > (IntMax - DigitVal(Head(t))) \div 10
         THEN Overflow
         ELSE ReadDigits(Tail(t), 10 * acc + DigitVal(Head(t)))
    ELSE acc

\* An extraction that does not accept a sign.
ReadIntUnsigned(t) ==
    LET u == SkipSpace(t)
    IN IF u # <<>> /\ IsDigit(Head(u)) /\ ReadDigits(u, 0) # Overflow
       THEN [ok |-> TRUE, value |-> ReadDigits(u, 0)]
       ELSE [ok |-> FALSE, value |-> 0]

\* in >> hs: leading whitespace, an optional sign, then at least one digit,
\* the number fitting an int.
ReadInt(t) ==
    LET u == SkipSpace(t)
        signed == u # <<>> /\ Head(u) \in {"-", "+"}
        v == IF signed THEN Tail(u) ELSE u
    IN IF v # <<>> /\ IsDigit(Head(v)) /\ ReadDigits(v, 0) # Overflow
       THEN [ok |-> TRUE,
             value |-> IF signed /\ Head(u) = "-" THEN 0 - ReadDigits(v, 0)
                       ELSE ReadDigits(v, 0)]
       ELSE [ok |-> FALSE, value |-> 0]

RECURSIVE NatText(_)
NatText(n) ==
    IF n < 10 THEN <<DigitChars[n + 1]>>
    ELSE NatText(n \div 10) \o <<DigitChars[(n % 10) + 1]>>

\* out << highScore << "\n"
WriteInt(n) == (IF n < 0 THEN <<"-">> \o NatText(0 - n) ELSE NatText(n)) \o <<"\n">>

MissingFile == [exists |-> FALSE, text |-> <<>>]
FileOf(t) == [exists |-> TRUE, text |-> t]

\* What highscore.txt holds when the game starts.
HighScoreFiles ==
    {MissingFile, FileOf(<<"1", "0", "\n">>)}

\* Game::loadHighScore: the new value of highScore.
LoadHighScore(f, hs) ==
    IF ~f.exists THEN hs
    ELSE LET r == ReadInt(f.text) IN IF r.ok THEN r.value ELSE hs

\* Game::saveHighScore: the new content of the file; the open may fail.
SaveHighScore(f, hs) == {FileOf(WriteInt(hs)), f}

----------------------------------------------------------------------------
(* class Game: the state as a record, the handlers as functions of it *)

\* The fields of Game the handlers read and write.
G == [body |-> body, dir |-> dir, fruit |-> fruit, score |-> score,
      highScore |-> highScore, over |-> over, paused |-> paused,
      exitRequested |-> exitRequested, dialogOpen |-> dialogOpen,
      dialogType |-> dialogType, dialogIndex |-> dialogIndex,
      fellBack |-> fellBack, resetRan |-> FALSE]

\* Game::openDialog
OpenDialog(g, t) ==
    [g EXCEPT !.dialogType = t, !.dialogOpen = TRUE, !.dialogIndex = 0]

\* A closeDialog that leaves the type of the closed dialog behind.
CloseDialogKeepsType(g) ==
    [g EXCEPT !.dialogOpen = FALSE, !.dialogIndex = 0]

\* Game::closeDialog
CloseDialog(g) ==
    [g EXCEPT !.dialogOpen = FALSE, !.dialogType = "None", !.dialogIndex = 0]

\* A wall check that lets the head onto the right and bottom wall.
WallHitOffByOne(w, h, next) ==
    next.x <= 0 \/ next.x > w - 1 \/ next.y <= 0 \/ next.y > h - 1

\* A wall check that leaves the top wall open.
WallHitTopOpen(w, h, next) ==
    next.x <= 0 \/ next.x >= w - 1 \/ next.y < 0 \/ next.y >= h - 1

\* A wall check that has lost the right wall.
WallHitRightOpen(w, h, next) ==
    next.x <= 0 \/ next.y <= 0 \/ next.y >= h - 1

\* Game::update: the wall test (the same in both builds).
WallHit(w, h, next) ==
    next.x <= 0 \/ next.x >= w - 1 \/ next.y <= 0 \/ next.y >= h - 1

\* Game::update: the branch a tick takes (the same order in both builds).
Branch(w, h, g) ==
    LET next == NextHead(g.body, g.dir) IN
    IF WallHit(w, h, next) THEN "wall"
    ELSE IF HitsSelf(g.body, next) THEN "self"
    ELSE IF next = g.fruit THEN "eat"
    ELSE "move"

\* A collision branch that commits the move before it ends the run.
NcCollideAfterMove(g) ==
    OpenDialog([g EXCEPT !.over = TRUE, !.body = Move(g.body, g.dir, FALSE)],
               "GameOver")

\* A collision branch that also wipes the score.
NcCollideClearsScore(g) ==
    OpenDialog([g EXCEPT !.over = TRUE, !.score = 0], "GameOver")

\* Game::update of game.cpp: either collision branch.
NcCollide(g) == OpenDialog([g EXCEPT !.over = TRUE], "GameOver")

\* An update that forgets the reward.
NcUpdateNoReward(w, h, g) ==
    LET next == NextHead(g.body, g.dir)
        br == Branch(w, h, g)
    IN IF br \in {"wall", "self"}
       THEN {NcCollide(g)}
       ELSE {[g EXCEPT !.body = Move(g.body, g.dir, br = "eat")]}

\* An update that respawns the fruit around the body only, not around next.
NcUpdateRespawnOnNext(w, h, g) ==
    LET next == NextHead(g.body, g.dir)
        br == Branch(w, h, g)
    IN IF br \in {"wall", "self"}
       THEN {NcCollide(g)}
       ELSE IF br = "eat"
       THEN {[g EXCEPT !.score = g.score + RewardNc,
                       !.highScore = IF g.score + RewardNc > g.highScore
                                     THEN g.score + RewardNc ELSE g.highScore,
                       !.fruit = r.pos, !.fellBack = r.exhausted,
                       !.body = Move(g.body, g.dir, TRUE)]
             : r \in RespawnOutcomes(w, h, Cells(g.body))}
       ELSE {[g EXCEPT !.body = Move(g.body, g.dir, FALSE)]}

\* An update that compares the high score with the score before the reward.
NcUpdateHighScoreLags(w, h, g) ==
    LET next == NextHead(g.body, g.dir)
        br == Branch(w, h, g)
    IN IF br \in {"wall", "self"}
       THEN {NcCollide(g)}
       ELSE IF br = "eat"
       THEN {[g EXCEPT !.score = g.score + RewardNc,
                       !.highScore = IF g.score > g.highScore
                                     THEN g.score ELSE g.highScore,
                       !.fruit = r.pos, !.fellBack = r.exhausted,
                       !.body = Move(g.body, g.dir, TRUE)]
             : r \in RespawnOutcomes(w, h, Cells(g.body) \cup {next})}
       ELSE {[g EXCEPT !.body = Move(g.body, g.dir, FALSE)]}

\* Game::update of game.cpp: the states one tick can end in.
NcUpdate(w, h, g) ==
    LET next == NextHead(g.body, g.dir)
        br == Branch(w, h, g)
    IN IF br \in {"wall", "self"}
       THEN {NcCollide(g)}
       ELSE IF br = "eat"
       THEN {[g EXCEPT !.score = g.score + RewardNc,
                       !.highScore = IF g.score + RewardNc > g.highScore
                                     THEN g.score + RewardNc ELSE g.highScore,
                       !.fruit = r.pos, !.fellBack = r.exhausted,
                       !.body = Move(g.body, g.dir, TRUE)]
             : r \in RespawnOutcomes(w, h, Cells(g.body) \cup {next})}
       ELSE {[g EXCEPT !.body = Move(g.body, g.dir, FALSE)]}

\* A console update that respawns around the body as it was before the move.
ConsoleUpdateRespawnFirst(w, h, g) ==
    LET br == Branch(w, h, g)
    IN IF br \in {"wall", "self"}
       THEN {[g EXCEPT !.over = TRUE]}
       ELSE LET moved == Move(g.body, g.dir, br = "eat") IN
            IF br = "eat"
            THEN {[g EXCEPT !.body = moved, !.score = g.score + RewardConsole,
                            !.fruit = r.pos, !.fellBack = r.exhausted]
                  : r \in RespawnOutcomes(w, h, Cells(g.body))}
            ELSE {[g EXCEPT !.body = moved]}

\* Game::update of snake.cpp (the console build): move first, then respawn.
ConsoleUpdate(w, h, g) ==
    LET br == Branch(w, h, g)
    IN IF br \in {"wall", "self"}
       THEN {[g EXCEPT !.over = TRUE]}
       ELSE LET moved == Move(g.body, g.dir, br = "eat") IN
            IF br = "eat"
            THEN {[g EXCEPT !.body = moved, !.score = g.score + RewardConsole,
                            !.fruit = r.pos, !.fellBack = r.exhausted]
                  : r \in RespawnOutcomes(w, h, Cells(moved))}
            ELSE {[g EXCEPT !.body = moved]}

\* A reset that keeps the score.
NcResetKeepsScore(w, h, g) ==
    LET fresh == NewSnake(w \div 2, h \div 2, StartLen) IN
    {[g EXCEPT !.over = FALSE, !.exitRequested = FALSE,
               !.dialogOpen = FALSE, !.dialogType = "None", !.dialogIndex = 0,
               !.paused = FALSE, !.body = fresh, !.dir = "Right",
               !.fruit = r.pos, !.fellBack = r.exhausted, !.resetRan = TRUE]
     : r \in RespawnOutcomes(w, h, Cells(fresh))}

\* A reset that also clears the high score.
NcResetClearsHighScore(w, h, g) ==
    LET fresh == NewSnake(w \div 2, h \div 2, StartLen) IN
    {[g EXCEPT !.score = 0, !.highScore = 0, !.over = FALSE, !.exitRequested = FALSE,
               !.dialogOpen = FALSE, !.dialogType = "None", !.dialogIndex = 0,
               !.paused = FALSE, !.body = fresh, !.dir = "Right",
               !.fruit = r.pos, !.fellBack = r.exhausted, !.resetRan = TRUE]
     : r \in RespawnOutcomes(w, h, Cells(fresh))}

\* Game::reset of game.cpp
NcReset(w, h, g) ==
    LET fresh == NewSnake(w \div 2, h \div 2, StartLen) IN
    {[g EXCEPT !.score = 0, !.over = FALSE, !.exitRequested = FALSE,
               !.dialogOpen = FALSE, !.dialogType = "None", !.dialogIndex = 0,
               !.paused = FALSE, !.body = fresh, !.dir = "Right",
               !.fruit = r.pos, !.fellBack = r.exhausted, !.resetRan = TRUE]
     : r \in RespawnOutcomes(w, h, Cells(fresh))}

\* Game::reset of snake.cpp
ConsoleReset(w, h, g) ==
    LET fresh == NewSnake(w \div 2, h \div 2, StartLen) IN
    {[g EXCEPT !.body = fresh, !.dir = "Right", !.score = 0, !.over = FALSE,
               !.exitRequested = FALSE, !.fruit = r.pos, !.fellBack = r.exhausted,
               !.resetRan = TRUE]
     : r \in RespawnOutcomes(w, h, Cells(fresh))}

----------------------------------------------------------------------------
(* Game::processInput *)

Keys == {"Up", "Down", "Left", "Right", "w", "s", "a", "d",
         "q", "space", "enter", "p", "r", "g", "x"}
ArrowKeys == {"Up", "Down", "Left", "Right"}
DirKeys == ArrowKeys \cup {"w", "s", "a", "d"}

\* The direction a movement key asks for.
KeyDir(key) ==
    CASE key \in {"Up", "w"} -> "Up"
      [] key \in {"Down", "s"} -> "Down"
      [] key \in {"Left", "a"} -> "Left"
      [] key \in {"Right", "d"} -> "Right"

\* A Restart that clears the flags instead of calling reset().
NcConfirmRestartWithoutReset(w, h, g) ==
    IF g.dialogType = "Pause"
    THEN IF g.dialogIndex = 0
         THEN {CloseDialog([g EXCEPT !.paused = FALSE])}
         ELSE IF g.dialogIndex = 1
         THEN {CloseDialog([g EXCEPT !.paused = FALSE, !.over = FALSE])}
         ELSE IF g.dialogIndex = 2
         THEN {[g EXCEPT !.exitRequested = TRUE]}
         ELSE {g}
    ELSE IF g.dialogType = "GameOver"
    THEN IF g.dialogIndex = 0
         THEN {CloseDialog([g EXCEPT !.over = FALSE])}
         ELSE IF g.dialogIndex = 1
         THEN {[g EXCEPT !.exitRequested = TRUE]}
         ELSE {g}
    ELSE {g}

\* A game-over dialog whose two entries are the wrong way round.
NcConfirmOptionsSwapped(w, h, g) ==
    IF g.dialogType = "Pause"
    THEN IF g.dialogIndex = 0
         THEN {CloseDialog([g EXCEPT !.paused = FALSE])}
         ELSE IF g.dialogIndex = 1
         THEN {CloseDialog([r EXCEPT !.paused = FALSE]) : r \in NcReset(w, h, g)}
         ELSE IF g.dialogIndex = 2
         THEN {[g EXCEPT !.exitRequested = TRUE]}
         ELSE {g}
    ELSE IF g.dialogType = "GameOver"
    THEN IF g.dialogIndex = 1
         THEN {CloseDialog(r) : r \in NcReset(w, h, g)}
         ELSE IF g.dialogIndex = 0
         THEN {[g EXCEPT !.exitRequested = TRUE]}
         ELSE {g}
    ELSE {g}

\* processInput of game.cpp, a dialog being open: Space or Enter confirms the
\* selected entry.
NcConfirm(w, h, g) ==
    IF g.dialogType = "Pause"
    THEN IF g.dialogIndex = 0
         THEN {CloseDialog([g EXCEPT !.paused = FALSE])}
         ELSE IF g.dialogIndex = 1
         THEN {CloseDialog([r EXCEPT !.paused = FALSE]) : r \in NcReset(w, h, g)}
         ELSE IF g.dialogIndex = 2
         THEN {[g EXCEPT !.exitRequested = TRUE]}
         ELSE {g}
    ELSE IF g.dialogType = "GameOver"
    THEN IF g.dialogIndex = 0
         THEN {CloseDialog(r) : r \in NcReset(w, h, g)}
         ELSE IF g.dialogIndex = 1
         THEN {[g EXCEPT !.exitRequested = TRUE]}
         ELSE {g}
    ELSE {g}

\* A dialog whose selection stops at its first and last entry.
NcDialogKeyNoWrap(w, h, g, key) ==
    LET maxIdx == IF g.dialogType = "Pause" THEN 2 ELSE 1 IN
    IF key \in {"Up", "Left"}
    THEN {[g EXCEPT !.dialogIndex = IF g.dialogIndex = 0 THEN 0 ELSE g.dialogIndex - 1]}
    ELSE IF key \in {"Down", "Right"}
    THEN {[g EXCEPT !.dialogIndex = IF g.dialogIndex = maxIdx THEN maxIdx
                                    ELSE g.dialogIndex + 1]}
    ELSE IF key = "q"
    THEN {[g EXCEPT !.exitRequested = TRUE]}
    ELSE IF key \in {"space", "enter"}
    THEN NcConfirm(w, h, g)
    ELSE IF key = "p"
    THEN IF g.dialogType = "Pause"
         THEN {CloseDialog([g EXCEPT !.paused = FALSE])}
         ELSE {g}
    ELSE {g}

\* processInput of game.cpp, one key, while a dialog is open.
NcDialogKey(w, h, g, key) ==
    LET maxIdx == IF g.dialogType = "Pause" THEN 2 ELSE 1 IN
    IF key \in {"Up", "Left"}
    THEN {[g EXCEPT !.dialogIndex = (g.dialogIndex - 1 + (maxIdx + 1)) % (maxIdx + 1)]}
    ELSE IF key \in {"Down", "Right"}
    THEN {[g EXCEPT !.dialogIndex = (g.dialogIndex + 1) % (maxIdx + 1)]}
    ELSE IF key = "q"
    THEN {[g EXCEPT !.exitRequested = TRUE]}
    ELSE IF key \in {"space", "enter"}
    THEN NcConfirm(w, h, g)
    ELSE IF key = "p"
    THEN IF g.dialogType = "Pause"
         THEN {CloseDialog([g EXCEPT !.paused = FALSE])}
         ELSE {g}
    ELSE {g}

\* A gameplay handler in which only p toggles the pause.
NcGameplayKeySpaceIgnored(w, h, g, key) ==
    IF key \in DirKeys
    THEN IF ~g.paused /\ ~g.over
         THEN {[g EXCEPT !.dir = SetDirection(g.dir, KeyDir(key))]}
         ELSE {g}
    ELSE IF key = "q"
    THEN {[g EXCEPT !.exitRequested = TRUE]}
    ELSE IF key = "p"
    THEN IF ~g.paused
         THEN {OpenDialog([g EXCEPT !.paused = TRUE], "Pause")}
         ELSE {CloseDialog([g EXCEPT !.paused = FALSE])}
    ELSE IF key = "r"
    THEN IF g.over THEN NcReset(w, h, g) ELSE {g}
    ELSE {g}

\* processInput of game.cpp, one key, in gameplay mode.
NcGameplayKey(w, h, g, key) ==
    IF key \in DirKeys
    THEN IF ~g.paused /\ ~g.over
         THEN {[g EXCEPT !.dir = SetDirection(g.dir, KeyDir(key))]}
         ELSE {g}
    ELSE IF key = "q"
    THEN {[g EXCEPT !.exitRequested = TRUE]}
    ELSE IF key \in {"space", "p"}
    THEN IF ~g.paused
         THEN {OpenDialog([g EXCEPT !.paused = TRUE], "Pause")}
         ELSE {CloseDialog([g EXCEPT !.paused = FALSE])}
    ELSE IF key = "r"
    THEN IF g.over THEN NcReset(w, h, g) ELSE {g}
    ELSE {g}

\* A drain loop with no modal branch: every key goes to the gameplay handler.
NcKeyNoModal(w, h, g, key) == NcGameplayKey(w, h, g, key)

\* processInput of game.cpp: the body of the drain loop for one key.
NcKey(w, h, g, key) ==
    IF g.dialogOpen THEN NcDialogKey(w, h, g, key) ELSE NcGameplayKey(w, h, g, key)

\* processInput of snake.cpp (POSIX branch), one key.
ConsoleKey(g, key) ==
    IF key \in DirKeys
    THEN [g EXCEPT !.dir = SetDirection(g.dir, KeyDir(key))]
    ELSE IF key = "x"
    THEN [g EXCEPT !.over = TRUE, !.exitRequested = TRUE]
    ELSE g

----------------------------------------------------------------------------
(* The game: construction and run() *)

NoPt == Pt(0, 0)
\* last: the operation; its argument (SpecSnake, SpecFruit; of a key of the
\* game only whether its handler ran reset(), never which key it was); the
\* prospective head of a tick, or at run() the terminal's columns and rows;
\* the branch taken.
Did(op, arg, next, branch) == [op |-> op, arg |-> arg, next |-> next, branch |-> branch]

SetG(g) ==
    /\ body' = g.body
    /\ dir' = g.dir
    /\ fruit' = g.fruit
    /\ score' = g.score
    /\ highScore' = g.highScore
    /\ over' = g.over
    /\ paused' = g.paused
    /\ exitRequested' = g.exitRequested
    /\ dialogOpen' = g.dialogOpen
    /\ dialogType' = g.dialogType
    /\ dialogIndex' = g.dialogIndex
    /\ fellBack' = g.fellBack

\* Game::Game of either build, main() having chosen the board.
Init ==
    /\ variant \in {"nc", "console"}
    /\ \E b \in Boards : width = b[1] /\ height = b[2]
    /\ hsFile \in HighScoreFiles
    /\ body = NewSnake(width \div 2, height \div 2, StartLen)
    /\ dir = "Right"
    /\ \E r \in RespawnOutcomes(width, height, Cells(body)) :
          fruit = r.pos /\ fellBack = r.exhausted
    /\ score = 0
    /\ highScore = IF variant = "nc" THEN LoadHighScore(hsFile, 0) ELSE 0
    /\ over = FALSE
    /\ paused = FALSE
    /\ exitRequested = FALSE
    /\ dialogOpen = FALSE
    /\ dialogType = "None"
    /\ dialogIndex = 0
    /\ pc = "start"
    /\ tries = 0
    /\ occupied = {}
    /\ last = Did("construct", "none", NoPt, "none")

\* A loop that never looks at exitRequested.
NcLoopTestIgnoresExit(exit) == "input"

\* Where run() of game.cpp goes after a frame: while (!exitRequested).
NcLoopTest(exit) == IF exit THEN "done" ELSE "input"

\* The sizes ncplane_dim_yx can report: <<columns, rows>> around the board's.
TermSizes(w, h) == {<<tw, th>> : tw \in (w - 1)..(w + 1), th \in (h - 1)..(h + 1)}

\* A size test that forgets the columns.
TooSmallRowsOnly(w, h, termw, termh) == h > termh

\* Game::run of game.cpp: the test in front of the loop.
TooSmall(w, h, termw, termh) == h > termh \/ w > termw

\* Game::run of game.cpp up to the loop: Notcurses starts or does not, the
\* terminal fits the board or does not.
NcRunStart ==
    /\ variant = "nc" /\ pc = "start"
    /\ \/ /\ pc' = "done"
          /\ last' = Did("run", "none", NoPt, "no terminal")
       \/ \E t \in TermSizes(width, height) :
             IF TooSmall(width, height, t[1], t[2])
             THEN /\ pc' = "done"
                  /\ last' = Did("run", "none", Pt(t[1], t[2]), "too small")
             ELSE /\ pc' = NcLoopTest(exitRequested)
                  /\ last' = Did("run", "none", Pt(t[1], t[2]), "fits")
    /\ UNCHANGED <<variant, width, height, gameVars, hsFile, tries, occupied>>

\* One key drained by processInput.
NcKeyEvent ==
    /\ variant = "nc" /\ pc = "input"
    /\ \E key \in Keys : \E g \in NcKey(width, height, G, key) :
          /\ SetG(g)
          /\ last' = Did("key", IF g.resetRan THEN "reset" ELSE "none", NoPt,
                       IF dialogOpen THEN "dialog" ELSE "gameplay")
    /\ UNCHANGED <<variant, width, height, hsFile, pc, tries, occupied>>

\* processInput returns: no input is pending.
NcEndInput ==
    /\ variant = "nc" /\ pc = "input"
    /\ pc' = "tick"
    /\ last' = Did("drained", "none", NoPt, "none")
    /\ UNCHANGED <<variant, width, height, gameVars, hsFile, tries, occupied>>

\* A frame that runs update() whatever paused and over say.
NcTickUngated ==
    /\ variant = "nc" /\ pc = "tick"
    /\ Branch(width, height, G) = "eat" => Len(body) < StartLen + MaxFruits
    /\ \E g \in NcUpdate(width, height, G) :
          /\ SetG(g)
          /\ pc' = NcLoopTest(g.exitRequested)
    /\ last' = Did("update", "none", NextHead(body, dir), Branch(width, height, G))
    /\ UNCHANGED <<variant, width, height, hsFile, tries, occupied>>

\* The tick gate is open and tickMs have passed: update().
NcTick ==
    /\ variant = "nc" /\ pc = "tick"
    /\ ~paused /\ ~over
    /\ Branch(width, height, G) = "eat" => Len(body) < StartLen + MaxFruits
    /\ \E g \in NcUpdate(width, height, G) :
          /\ SetG(g)
          /\ pc' = NcLoopTest(g.exitRequested)
    /\ last' = Did("update", "none", NextHead(body, dir), Branch(width, height, G))
    /\ UNCHANGED <<variant, width, height, hsFile, tries, occupied>>

\* The frame runs no update: paused, over, or tickMs have not passed.
NcNoTick ==
    /\ variant = "nc" /\ pc = "tick"
    /\ pc' = NcLoopTest(exitRequested)
    /\ last' = Did("no update", "none", NoPt, IF paused \/ over THEN "gate" ELSE "time")
    /\ UNCHANGED <<variant, width, height, gameVars, hsFile, tries, occupied>>

\* Game::run of snake.cpp: the session starts with reset().
ConsoleRunStart ==
    /\ variant = "console" /\ pc = "start"
    /\ \E g \in ConsoleReset(width, height, G) : SetG(g)
    /\ pc' = "input"
    /\ last' = Did("reset", "none", NoPt, "none")
    /\ UNCHANGED <<variant, width, height, hsFile, tries, occupied>>

ConsoleKeyEvent ==
    /\ variant = "console" /\ pc = "input"
    /\ \E key \in Keys :
          /\ SetG(ConsoleKey(G, key))
          /\ last' = Did("key", "none", NoPt, "gameplay")
    /\ UNCHANGED <<variant, width, height, hsFile, pc, tries, occupied>>

ConsoleEndInput ==
    /\ variant = "console" /\ pc = "input"
    /\ pc' = "tick"
    /\ last' = Did("drained", "none", NoPt, "none")
    /\ UNCHANGED <<variant, width, height, gameVars, hsFile, tries, occupied>>

\* The loop body of run() after processInput: update(), then while (!over).
ConsoleTick ==
    /\ variant = "console" /\ pc = "tick"
    /\ Branch(width, height, G) = "eat" => Len(body) < StartLen + MaxFruits
    /\ \E g \in ConsoleUpdate(width, height, G) :
          /\ SetG(g)
          /\ pc' = IF ~g.over THEN "input"
                   ELSE IF g.exitRequested THEN "done" ELSE "gameover"
    /\ last' = Did("update", "none", NextHead(body, dir), Branch(width, height, G))
    /\ UNCHANGED <<variant, width, height, hsFile, tries, occupied>>

\* The game-over prompt of run(): the characters one poll reads.
ConsolePoll ==
    /\ variant = "console" /\ pc = "gameover"
    /\ \E chars \in (SUBSET {"r", "q", "x"}) \ {{}} :
          IF "r" \in chars
          THEN /\ \E g \in ConsoleReset(width, height, G) : SetG(g)
               /\ pc' = "input"
               /\ last' = Did("reset", "none", NoPt, "none")
          ELSE /\ SetG([G EXCEPT !.exitRequested = G.exitRequested \/ "x" \in chars])
               /\ pc' = "done"
               /\ last' = Did("quit", "none", NoPt, "none")
    /\ UNCHANGED <<variant, width, height, hsFile, tries, occupied>>

\* main() returns: Game::~Game (game.cpp saves the high score).
Shutdown ==
    /\ pc = "done"
    /\ pc' = "exited"
    /\ hsFile' \in (IF variant = "nc" THEN SaveHighScore(hsFile, highScore) ELSE {hsFile})
    /\ last' = Did("shutdown", "none", NoPt, "none")
    /\ UNCHANGED <<variant, width, height, gameVars, tries, occupied>>

Next ==
    \/ NcRunStart
    \/ NcKeyEvent
    \/ NcEndInput
    \/ NcTick
    \/ NcNoTick
    \/ ConsoleRunStart
    \/ ConsoleKeyEvent
    \/ ConsoleEndInput
    \/ ConsoleTick
    \/ ConsolePoll
    \/ Shutdown

Spec == Init /\ [][Next]_vars

----------------------------------------------------------------------------
(* SpecSnake: a Snake object and its public interface *)

\* The values the game's fields keep while a Snake or a Fruit is driven alone.
IdleGame ==
    /\ score = 0 /\ highScore = 0
    /\ over = FALSE /\ paused = FALSE /\ exitRequested = FALSE
    /\ dialogOpen = FALSE /\ dialogType = "None" /\ dialogIndex = 0
    /\ fellBack = FALSE
    /\ hsFile = MissingFile

\* Snake::Snake(startX, startY, initialLength)
InitSnake ==
    /\ variant = "snake"
    /\ width = 0 /\ height = 0
    /\ \E startX \in 0..1, initialLength \in 1..MaxSnakeLen :
          body = NewSnake(startX, 0, initialLength)
    /\ dir = "Right"
    /\ fruit = NoPt
    /\ IdleGame
    /\ pc = "snake"
    /\ tries = 0
    /\ occupied = {}
    /\ last = Did("construct", "none", NoPt, "none")

\* A call of setDirection(d); last.branch keeps the heading before the call.
SnakeSetDirection ==
    /\ pc = "snake"
    /\ \E d \in Directions :
          /\ dir' = SetDirection(dir, d)
          /\ last' = Did("setDirection", d, NoPt, dir)
    /\ UNCHANGED <<variant, width, height, body, fruit, score, highScore, over,
                   paused, exitRequested, dialogOpen, dialogType, dialogIndex,
                   fellBack, hsFile, pc, tries, occupied>>

InBox(p) == p.x \in (0 - MaxCoord)..MaxCoord /\ p.y \in (0 - MaxCoord)..MaxCoord

\* A call of move(grow), explored inside the box and up to MaxSnakeLen.
SnakeMove ==
    /\ pc = "snake"
    /\ InBox(NextHead(body, dir))
    /\ \E grow \in BOOLEAN :
          /\ grow => Len(body) < MaxSnakeLen
          /\ body' = Move(body, dir, grow)
          /\ last' = Did("move", IF grow THEN "grow" ELSE "keep", NextHead(body, dir), dir)
    /\ UNCHANGED <<variant, width, height, dir, fruit, score, highScore, over,
                   paused, exitRequested, dialogOpen, dialogType, dialogIndex,
                   fellBack, hsFile, pc, tries, occupied>>

NextSnake == SnakeSetDirection \/ SnakeMove

SpecSnake == InitSnake /\ [][NextSnake]_vars

----------------------------------------------------------------------------
(* SpecFruit: a Fruit object, respawn one sampled candidate at a time *)

\* Fruit::Fruit(width, height): pos{0, 0}
InitFruit ==
    /\ variant = "fruit"
    /\ \E b \in FruitBoards : width = b[1] /\ height = b[2]
    /\ body = <<>>
    /\ dir = "Right"
    /\ fruit = Pt(0, 0)
    /\ IdleGame
    /\ pc = "idle"
    /\ tries = 0
    /\ occupied = {}
    /\ last = Did("construct", "none", NoPt, "none")

fruitFrame == <<variant, width, height, body, dir, score, highScore, over, paused,
                exitRequested, dialogOpen, dialogType, dialogIndex, fellBack, hsFile>>

\* A caller enters respawn(isOccupied): tries = 0.
RespawnCall ==
    /\ pc = "idle"
    /\ \E occ \in SUBSET Interior(width, height) : occupied' = occ
    /\ tries' = 0
    /\ pc' = "sampling"
    /\ last' = Did("respawn", "none", NoPt, "none")
    /\ UNCHANGED <<fruitFrame, fruit>>

\* A loop that forgets ++tries.
RespawnSampleNoCount ==
    /\ pc = "sampling"
    /\ tries < MaxTries
    /\ \E candidate \in Interior(width, height) :
          IF candidate \notin occupied
          THEN /\ fruit' = candidate
               /\ pc' = "idle"
               /\ last' = Did("sample", "none", NoPt, "accepted")
               /\ UNCHANGED tries
          ELSE /\ last' = Did("sample", "none", NoPt, "occupied")
               /\ UNCHANGED <<fruit, pc, tries>>
    /\ UNCHANGED <<fruitFrame, occupied>>

\* One pass of the loop of respawn: tries < 1000, a candidate, the test.
RespawnSample ==
    /\ pc = "sampling"
    /\ tries < MaxTries
    /\ \E candidate \in Interior(width, height) :
          IF candidate \notin occupied
          THEN /\ fruit' = candidate
               /\ pc' = "idle"
               /\ last' = Did("sample", "none", NoPt, "accepted")
               /\ UNCHANGED tries
          ELSE /\ tries' = tries + 1
               /\ last' = Did("sample", "none", NoPt, "occupied")
               /\ UNCHANGED <<fruit, pc>>
    /\ UNCHANGED <<fruitFrame, occupied>>

\* The loop of respawn has ended without a free candidate: pos = {1, 1}.
RespawnFallback ==
    /\ pc = "sampling"
    /\ ~(tries < MaxTries)
    /\ fruit' = FallbackCell
    /\ pc' = "idle"
    /\ last' = Did("fallback", "none", NoPt, "exhausted")
    /\ UNCHANGED <<fruitFrame, occupied, tries>>

NextFruit == RespawnCall \/ RespawnSample \/ RespawnFallback

SpecFruit == InitFruit /\ [][NextFruit]_vars

\* respawn runs to its end: nothing suspends the loop between two passes.
SpecFruitFair == SpecFruit /\ WF_vars(RespawnSample) /\ WF_vars(RespawnFallback)

----------------------------------------------------------------------------
(* Vocabulary of the properties *)

Reverse(d) ==
    CASE d = "Up" -> "Down"
      [] d = "Down" -> "Up"
      [] d = "Left" -> "Right"
      [] d = "Right" -> "Left"

\* The cell one step from p in direction d; rows are numbered downwards.
StepFrom(p, d) ==
    CASE d = "Up" -> Pt(p.x, p.y - 1)
      [] d = "Down" -> Pt(p.x, p.y + 1)
      [] d = "Left" -> Pt(p.x - 1, p.y)
      [] d = "Right" -> Pt(p.x + 1, p.y)

\* p lies on the wall ring of the board.
OnRing(p) == p.x \in {0, width - 1} \/ p.y \in {0, height - 1}

\* p lies strictly inside the wall ring.
InsideRing(p) == p.x \in 1..(width - 2) /\ p.y \in 1..(height - 2)

\* The step taken is a tick of the game: update() has run.
Ticked == last'.op = "update"

\* The tick that has just run found a collision.
TickCollided == last.op = "update" /\ last.branch \in {"wall", "self"}

----------------------------------------------------------------------------
(* C1: no sequence of direction keys drained in gameplay mode between two   *)
(* ticks turns the snake onto its own second segment, so no tick ends the   *)
(* run by the head stepping back into its neck.                             *)
(* Fails: Up then Left in one frame reverses a snake heading Right.         *)
C1_NoDeathByReversal ==
    ~(TickCollided /\ last.branch = "self" /\ last.next = body[2])

----------------------------------------------------------------------------
(* C2: setDirection(d) with d not the opposite of the heading sets the      *)
(* heading to d, and nextHead() is then the head moved one step towards d;  *)
(* with d the opposite the heading stays; the body is unchanged either way. *)
C2_SetDirection ==
    [][last'.op = "setDirection" =>
          LET d == last'.arg IN
          /\ body' = body
          /\ d # Reverse(dir) => /\ dir' = d
                                 /\ NextHead(body', dir') = StepFrom(body[1], d)
          /\ d = Reverse(dir) => dir' = dir]_vars

\* A snake that had turned Down and moved has turned Left: the heading is the
\* one asked for and differs from the one before the call.
C2_Witness ==
    /\ last.op = "setDirection"
    /\ last.arg = "Left" /\ dir = "Left" /\ last.branch = "Down"
    /\ Len(body) >= 2 /\ body[1].y = body[2].y + 1

----------------------------------------------------------------------------
(* C3: a tick ends the run by the wall check exactly when the prospective   *)
(* head has x in {0, W-1} or y in {0, H-1}; a head strictly inside the ring *)
(* never triggers it.                                                       *)
C3_WallCheck ==
    last.op = "update" =>
        /\ (last.branch = "wall") <=> OnRing(last.next)
        /\ last.branch = "wall" => over
        /\ InsideRing(last.next) => last.branch # "wall"

\* The wall check has fired on the left wall, which takes a U-turn to reach.
C3_Witness ==
    /\ last.op = "update" /\ last.branch = "wall" /\ over
    /\ last.next.x = 0

----------------------------------------------------------------------------
(* C4: a tick whose prospective head is a segment of the body as it is      *)
(* before the move sets over, the tail cell included; a tick whose          *)
(* prospective head is an interior cell off the body leaves over alone.     *)
C4_SelfCollision ==
    [][Ticked =>
          LET next == NextHead(body, dir) IN
          /\ next \in Cells(body) => over'
          /\ (InsideRing(next) /\ next \notin Cells(body)) => over' = over]_vars

\* A snake of length >= 4 has run into the cell its tail was about to leave.
C4_Witness ==
    /\ TickCollided /\ last.branch = "self" /\ over
    /\ Len(body) >= 4
    /\ last.next = body[Len(body)]

----------------------------------------------------------------------------
(* C5: a tick that detects a wall or self collision commits no move: body,  *)
(* heading, score, high score and fruit are as before; only over becomes    *)
(* true and (game.cpp) the game-over dialog opens.                          *)
C5_CollisionCommitsNothing ==
    [][(Ticked /\ last'.branch \in {"wall", "self"}) =>
          /\ body' = body /\ dir' = dir
          /\ score' = score /\ highScore' = highScore
          /\ fruit' = fruit
          /\ paused' = paused /\ exitRequested' = exitRequested
          /\ over'
          /\ variant = "nc" =>
                dialogOpen' /\ dialogType' = "GameOver" /\ dialogIndex' = 0]_vars

\* Heading Right at x = W - 2, one tick has ended the run at the right wall.
C5_Witness ==
    /\ variant = "nc"
    /\ TickCollided /\ last.branch = "wall" /\ over /\ dialogOpen
    /\ dir = "Right" /\ body[1].x = width - 2

----------------------------------------------------------------------------
(* C6: a non-colliding tick onto the fruit cell adds exactly the reward to  *)
(* the score (10 in game.cpp, 1 in the console build) and 1 to the length;  *)
(* a non-colliding tick onto another cell changes neither.                  *)
C6_EatingScoresOnce ==
    [][Ticked =>
          LET next == NextHead(body, dir)
              free == InsideRing(next) /\ next \notin Cells(body)
          IN /\ (free /\ next = fruit) =>
                   /\ score' = score + (IF variant = "nc" THEN 10 ELSE 1)
                   /\ Len(body') = Len(body) + 1
             /\ (free /\ next # fruit) =>
                   /\ score' = score
                   /\ Len(body') = Len(body)]_vars

\* The second fruit of a run has been eaten in game.cpp.
C6_Witness ==
    /\ variant = "nc"
    /\ last.op = "update" /\ last.branch = "eat"
    /\ score = 20 /\ Len(body) = 5

----------------------------------------------------------------------------
(* C7: move(grow) puts the value nextHead() had before the move in front of *)
(* the old segments, in their order; without grow the old tail is dropped   *)
(* and the length kept, with grow nothing is dropped and the length is one  *)
(* more.                                                                    *)
C7_Move ==
    [][last'.op = "move" =>
          LET next == NextHead(body, dir) IN
          /\ body'[1] = next
          /\ last'.arg = "keep" =>
                /\ Len(body') = Len(body)
                /\ body' = <<next>> \o SubSeq(body, 1, Len(body) - 1)
          /\ last'.arg = "grow" =>
                /\ Len(body') = Len(body) + 1
                /\ body' = <<next>> \o body]_vars

\* A snake has grown to three segments by a move.
C7_Witness ==
    /\ last.op = "move" /\ last.arg = "grow"
    /\ Len(body) = 3

----------------------------------------------------------------------------
(* C8: after a call of respawn on a board with at least one interior cell   *)
(* the predicate answers false for, the fruit is on a cell the predicate    *)
(* answers false for.                                                       *)
(* Fails: every one of the 1000 candidates can be an occupied cell while a  *)
(* free cell exists, and the fallback cell (1,1) can be occupied.           *)
C8_RespawnLandsOnFreeCell ==
    (/\ pc = "idle"
     /\ last.op \in {"sample", "fallback"}
     /\ Interior(width, height) \ occupied # {})
    => fruit \notin occupied

----------------------------------------------------------------------------
(* C9: respawn ends after at most 1000 sampled candidates whatever the      *)
(* predicate answers: each rejected candidate adds one to tries, a          *)
(* candidate is sampled only while tries < 1000, and a call that is under   *)
(* way always returns; a call whose candidates were all occupied ends with  *)
(* the fruit at (1,1), occupied or not.                                     *)
C9_RespawnBounded ==
    /\ [](pc = "sampling" => tries \in 0..1000)
    /\ [][(pc = "sampling" /\ pc' = "sampling") => tries' = tries + 1]_vars
    /\ [][last'.op = "sample" => tries < 1000]_vars
    /\ [][(pc = "sampling" /\ tries = 1000) => (pc' = "idle" /\ fruit' = Pt(1, 1))]_vars
    /\ [](last.op = "fallback" => (tries = 1000 /\ fruit = Pt(1, 1)))
    /\ (pc = "sampling") ~> (pc = "idle")

\* With no interior cell free, the call has ended with the fruit on the
\* occupied cell (1,1) after 1000 rejected candidates.
C9_Witness ==
    /\ pc = "idle" /\ last.op = "fallback"
    /\ occupied = Interior(width, height)
    /\ tries = 1000
    /\ fruit = Pt(1, 1) /\ fruit \in occupied

----------------------------------------------------------------------------
(* C10: after construction, after every reset and at the end of every tick  *)
(* the fruit is on no segment of the snake, as long as the respawn that     *)
(* placed it did not exhaust its attempts and fall back.                    *)
C10_FruitOffSnake ==
    ~fellBack => \A i \in 1..Len(body) : body[i] # fruit

\* An eating tick has placed a new fruit, by a free candidate, next to a
\* snake of five segments.
C10_Witness ==
    /\ last.op = "update" /\ last.branch = "eat"
    /\ ~fellBack
    /\ Len(body) = 5
    /\ fruit \notin Cells(body)

----------------------------------------------------------------------------
(* The run flags, the score and the high score *)

\* The step ran reset(): the console build's run() or game-over prompt, or a
\* key of game.cpp whose handler called it.
ResetRan == last'.op = "reset" \/ (last'.op = "key" /\ last'.arg = "reset")

\* C11: once over is set it stays set across every step that does not run
\* reset(), and in the Notcurses build no such step (no key, no tick, no
\* frame without a tick) changes the snake's body, its heading or the score.
C11_OverIsTerminal ==
    [][over /\ ~ResetRan =>
         /\ over'
         /\ variant = "nc" => body' = body /\ dir' = dir /\ score' = score]_vars

\* A frame of a finished run went by without an update, the selection of the
\* game-over dialog having been moved to Quit.
C11_Witness ==
    /\ variant = "nc" /\ over /\ dialogType = "GameOver" /\ dialogIndex = 1
    /\ last.op = "no update" /\ last.branch = "gate"

\* C12: no step lowers the high score, reset() leaves it as it is, and the
\* value the destructor writes reads back as a number no smaller than the one
\* the constructor loaded.
C12_HighScoreMonotone ==
    [][/\ highScore' >= highScore
       /\ ResetRan => highScore' = highScore
       /\ (variant = "nc" /\ last'.op = "shutdown" /\ hsFile' # hsFile) =>
             /\ hsFile'.exists
             /\ ReadInt(hsFile'.text).ok
             /\ ReadInt(hsFile'.text).value = highScore
             /\ ReadInt(hsFile'.text).value >= LoadHighScore(hsFile, 0)]_vars

\* The process ended with a high score of 20 written over a file that held
\* less or did not exist.
C12_Witness ==
    /\ variant = "nc" /\ pc = "exited" /\ highScore = 20
    /\ hsFile = FileOf(<<"2", "0", "\n">>)

\* C13: a step that does not run reset() never lowers the score, and reset()
\* sets it to 0.
C13_ScoreMonotone ==
    [][IF ResetRan THEN score' = 0 ELSE score' >= score]_vars

\* A key has just restarted the game after a run that scored 20.
C13_Witness ==
    /\ last.op = "key" /\ last.arg = "reset" /\ score = 0
    /\ highScore = 20 /\ hsFile = MissingFile

\* C14: every reset() of game.cpp ends in the start state: the three cells
\* (width/2, height/2), (width/2 - 1, height/2), (width/2 - 2, height/2) head
\* first, heading Right, score 0, over, paused and the dialog fields cleared,
\* and the fruit on a cell that is not on the new snake.
C14_ResetYieldsStartState ==
    [][(variant = "nc" /\ ResetRan) =>
         /\ body' = <<Pt(width \div 2, height \div 2),
                      Pt(width \div 2 - 1, height \div 2),
                      Pt(width \div 2 - 2, height \div 2)>>
         /\ dir' = "Right"
         /\ score' = 0
         /\ ~over' /\ ~paused'
         /\ ~dialogOpen' /\ dialogType' = "None" /\ dialogIndex' = 0
         /\ \A i \in 1..Len(body') : fruit' # body'[i]]_vars

----------------------------------------------------------------------------
(* The dialogs and the keys *)

\* A key of game.cpp was handled in this step.
NcKeyed == variant = "nc" /\ last'.op = "key"

\* C15 as stated: no key handled while a dialog is open changes the snake's
\* heading or body.
C15_NoKeyMovesSnakeInDialog ==
    [][(NcKeyed /\ dialogOpen) => dir' = dir /\ body' = body]_vars

\* C15: while a dialog is open an arrow key moves the selection index and
\* changes nothing else, and a key whose handler does not run reset() (every
\* key but Space or Enter on Restart) leaves the snake's heading and body alone.
C15_DialogSuppressesDirection ==
    /\ [](variant = "nc" /\ pc = "input" /\ dialogOpen =>
            \A key \in ArrowKeys : \A g \in NcKey(width, height, G, key) :
               /\ g.dialogIndex # dialogIndex
               /\ g = [G EXCEPT !.dialogIndex = g.dialogIndex])
    /\ [][(NcKeyed /\ dialogOpen /\ ~ResetRan) => dir' = dir /\ body' = body]_vars

\* A key was handled in the pause dialog of a snake that had turned Up and
\* left its start cells, and the selection is on Quit.
C15_Witness ==
    /\ variant = "nc" /\ dialogOpen /\ dialogType = "Pause" /\ dialogIndex = 2
    /\ last.op = "key" /\ last.branch = "dialog"
    /\ dir = "Up" /\ body[1].y < height \div 2

\* C16: a frame of game.cpp that reaches the tick gate with paused or over
\* set leaves the snake's body, the fruit, the score and the high score as
\* they were.
C16_TickGate ==
    [][(variant = "nc" /\ pc = "tick" /\ (paused \/ over)) =>
         body' = body /\ fruit' = fruit /\ score' = score /\ highScore' = highScore]_vars

\* A frame went by without an update while a run that has scored 10 is paused.
C16_Witness ==
    /\ variant = "nc" /\ paused /\ ~over /\ score = 10
    /\ last.op = "no update" /\ last.branch = "gate"

\* The keys the README binds to Pause/Resume.
PauseKeys == {"p", "space"}

\* g is the game resumed from G: not paused, the snake, the fruit and the
\* score as they are in G.
ResumedAsPaused(g) ==
    /\ ~g.paused /\ ~g.dialogOpen
    /\ g.body = body /\ g.dir = dir /\ g.fruit = fruit /\ g.score = score

\* C17 as stated: during play p and Space pause the game, and while it is
\* paused p and Space resume it with snake, fruit and score as they were,
\* wherever the selection of the pause dialog has been moved.
C17_PauseResumeKeys ==
    (variant = "nc" /\ pc = "input") =>
       \A key \in PauseKeys : \A g \in NcKey(width, height, G, key) :
          /\ (~paused /\ ~over) => g.paused
          /\ paused => ResumedAsPaused(g)

\* C17: during play p and Space pause the game; while it is paused, p, and
\* Space with the selection on Resume, resume it with snake, fruit and score
\* as they were; Space on Restart runs reset() and Space on Quit requests the
\* exit and leaves the game paused; a key that leaves the game paused changes
\* none of body, heading, fruit and score.
C17_PauseResume ==
    /\ []((variant = "nc" /\ pc = "input") =>
            \A key \in PauseKeys : \A g \in NcKey(width, height, G, key) :
               /\ (~paused /\ ~over) =>
                     /\ g.paused /\ g.dialogOpen /\ g.dialogType = "Pause"
                     /\ g.dialogIndex = 0
                     /\ g.body = body /\ g.dir = dir /\ g.fruit = fruit
                     /\ g.score = score
               /\ paused =>
                     IF key = "p" \/ dialogIndex = 0 THEN ResumedAsPaused(g)
                     ELSE IF dialogIndex = 1 THEN g.resetRan /\ ~g.paused
                     ELSE g.paused /\ g.exitRequested /\ ~g.resetRan)
    /\ [][(NcKeyed /\ paused /\ paused') =>
            body' = body /\ dir' = dir /\ fruit' = fruit /\ score' = score]_vars

\* A key handled in the pause dialog has resumed, without reset(), a run that
\* has scored 10 and whose snake is heading Down.
C17_Witness ==
    /\ variant = "nc" /\ ~paused /\ ~dialogOpen /\ ~over
    /\ last.op = "key" /\ last.branch = "dialog" /\ last.arg = "none"
    /\ score = 10 /\ dir = "Down"

\* C18: when run() of game.cpp has started on a terminal that fits, the
\* name-entry dialog is open.
C18_NameEntryOnStart ==
    (variant = "nc" /\ last.op = "run" /\ last.branch = "fits") =>
       dialogOpen /\ dialogType = "EnterName"

----------------------------------------------------------------------------
(* SpecHighScore: highscore.txt across processes *)

MaxHsFruits == 12

\* What highscore.txt can hold when a process starts: nothing, no number, a
\* number, a number too large for an int.
StoredFiles ==
    {MissingFile, FileOf(<<>>), FileOf(<<"\n">>), FileOf(<<"h", "i", "\n">>),
     FileOf(<<"-">>), FileOf(<<"x", "9">>),
     FileOf(<<"0", "\n">>), FileOf(<<"1", "0", "\n">>), FileOf(<<"2", "5">>),
     FileOf(<<" ", "7", "\n">>), FileOf(<<"-", "1", "0", "\n">>),
     FileOf(<<"1", "2", "0", "\n">>), FileOf(<<"0", "3", "0", "\n">>),
     FileOf(<<"2", "1", "4", "7", "4", "8", "3", "6", "4", "7", "\n">>),
     FileOf(<<"3", "0", "0", "0", "0", "0", "0", "0", "0", "0", "\n">>)}

\* A Game object before its constructor's body: highScore{0}.
InitHighScore ==
    /\ variant = "highscore"
    /\ width = 0 /\ height = 0
    /\ body = <<>>
    /\ dir = "Right"
    /\ fruit = NoPt
    /\ score = 0 /\ highScore = 0
    /\ over = FALSE /\ paused = FALSE /\ exitRequested = FALSE
    /\ dialogOpen = FALSE /\ dialogType = "None" /\ dialogIndex = 0
    /\ fellBack = FALSE
    /\ hsFile \in StoredFiles
    /\ pc = "constructing"
    /\ tries = 0
    /\ occupied = {}
    /\ last = Did("construct", "none", NoPt, "none")

hsFrame == <<variant, width, height, body, dir, fruit, score, over, paused,
             exitRequested, dialogOpen, dialogType, dialogIndex, fellBack,
             tries, occupied>>

\* Game::Game: loadHighScore().
HsLoad ==
    /\ pc = "constructing"
    /\ highScore' = LoadHighScore(hsFile, highScore)
    /\ pc' = "running"
    /\ last' = Did("load", "none", NoPt, "none")
    /\ UNCHANGED <<hsFrame, hsFile>>

\* Game::update: a score of n fruits that beats the high score replaces it.
HsRaise ==
    /\ pc = "running"
    /\ \E n \in 1..MaxHsFruits :
          /\ n * RewardNc > highScore
          /\ highScore' = n * RewardNc
    /\ last' = Did("raise", "none", NoPt, "none")
    /\ UNCHANGED <<hsFrame, hsFile, pc>>

\* Game::~Game: saveHighScore(); the file is written, or could not be opened.
HsSave ==
    /\ pc = "running"
    /\ \E f \in SaveHighScore(hsFile, highScore) :
          /\ hsFile' = f
          /\ last' = Did("save", "none", NoPt,
                         IF f = FileOf(WriteInt(highScore)) THEN "written" ELSE "kept")
    /\ pc' = "saved"
    /\ UNCHANGED <<hsFrame, highScore>>

\* The next process constructs its Game.
HsNewGame ==
    /\ pc = "saved"
    /\ highScore' = 0
    /\ pc' = "constructing"
    /\ last' = Did("construct", "none", NoPt, "none")
    /\ UNCHANGED <<hsFrame, hsFile>>

NextHighScore == HsLoad \/ HsRaise \/ HsSave \/ HsNewGame

SpecHighScore == InitHighScore /\ [][NextHighScore]_vars

\* The number each stored file stands for; 0 where it holds none that an int
\* can take.
StoredValues ==
    {<<MissingFile, 0>>, <<FileOf(<<>>), 0>>, <<FileOf(<<"\n">>), 0>>,
     <<FileOf(<<"h", "i", "\n">>), 0>>, <<FileOf(<<"-">>), 0>>,
     <<FileOf(<<"x", "9">>), 0>>,
     <<FileOf(<<"0", "\n">>), 0>>, <<FileOf(<<"1", "0", "\n">>), 10>>,
     <<FileOf(<<"2", "5">>), 25>>, <<FileOf(<<" ", "7", "\n">>), 7>>,
     <<FileOf(<<"-", "1", "0", "\n">>), 0 - 10>>,
     <<FileOf(<<"1", "2", "0", "\n">>), 120>>,
     <<FileOf(<<"0", "3", "0", "\n">>), 30>>,
     <<FileOf(<<"2", "1", "4", "7", "4", "8", "3", "6", "4", "7", "\n">>), IntMax>>,
     <<FileOf(<<"3", "0", "0", "0", "0", "0", "0", "0", "0", "0", "\n">>), 0>>}

\* C19: the constructor's load yields the integer the file holds, and 0 when
\* the file is missing, empty or holds no number; and the file a destructor
\* has written loads, in a new game, as the high score that was saved.
C19_HighScorePersistence ==
    /\ \A f \in StoredFiles : \E c \in StoredValues : c[1] = f
    /\ [][last'.op = "load" =>
            \A c \in StoredValues : hsFile = c[1] => highScore' = c[2]]_vars
    /\ []((pc = "saved" /\ last.branch = "written") =>
            LoadHighScore(hsFile, 0) = highScore)
    /\ [][(last.op = "save" /\ last.branch = "written" /\ last'.op = "construct") =>
            LoadHighScore(hsFile', highScore') = highScore]_vars

\* A game has loaded 50, which no stored file holds: an earlier process of the
\* run wrote it.
C19_Witness ==
    /\ variant = "highscore" /\ last.op = "load"
    /\ highScore = 50 /\ hsFile = FileOf(<<"5", "0", "\n">>)

----------------------------------------------------------------------------
(* The start of run() *)

\* C20: when the terminal has fewer rows than the board's height or fewer
\* columns than its width, run() of game.cpp goes straight to its return with
\* the snake, the fruit and the score as constructed; from there only the
\* destructor runs, which handles no key, runs no tick and changes none of
\* them; and nothing follows the exit.
C20_TooSmallTerminal ==
    /\ [][(variant = "nc" /\ pc = "start") =>
            /\ last'.op = "run"
            /\ (/\ last'.branch # "no terminal"
                /\ (last'.next.y < height \/ last'.next.x < width)) =>
                  /\ pc' = "done" /\ last'.branch = "too small"
                  /\ body' = body /\ dir' = dir /\ fruit' = fruit /\ score' = score
                  /\ body' = NewSnake(width \div 2, height \div 2, StartLen)
                  /\ score' = 0]_vars
    /\ [][pc = "done" =>
            /\ last'.op = "shutdown" /\ pc' = "exited"
            /\ body' = body /\ dir' = dir /\ fruit' = fruit /\ score' = score]_vars
    /\ [][pc # "exited"]_vars

\* run() has returned at once on a terminal with rows enough and one column
\* too few.
C20_Witness ==
    /\ variant = "nc" /\ pc = "done"
    /\ last.op = "run" /\ last.branch = "too small"
    /\ last.next.y = height /\ last.next.x = width - 1

----------------------------------------------------------------------------
(* SpecTen: the Notcurses game on a 10x10 board, no key pressed *)

TenBoard == <<10, 10>>

\* Game::Game(10, 10) of game.cpp.
InitTen ==
    /\ variant = "nc"
    /\ width = TenBoard[1] /\ height = TenBoard[2]
    /\ hsFile \in HighScoreFiles
    /\ body = NewSnake(width \div 2, height \div 2, StartLen)
    /\ dir = "Right"
    /\ \E r \in RespawnOutcomes(width, height, Cells(body)) :
          fruit = r.pos /\ fellBack = r.exhausted
    /\ score = 0
    /\ highScore = LoadHighScore(hsFile, 0)
    /\ over = FALSE
    /\ paused = FALSE
    /\ exitRequested = FALSE
    /\ dialogOpen = FALSE
    /\ dialogType = "None"
    /\ dialogIndex = 0
    /\ pc = "start"
    /\ tries = 0
    /\ occupied = {}
    /\ last = Did("construct", "none", NoPt, "none")

\* run() with no key ever pending.
NextTen ==
    \/ NcRunStart
    \/ NcEndInput
    \/ NcTick
    \/ NcNoTick
    \/ Shutdown

SpecTen == InitTen /\ [][NextTen]_vars

\* C21: on the 10x10 board the constructed snake is (5,5),(4,5),(3,5) heading
\* Right; its first tick, no key having been pressed, gives (6,5),(5,5),(4,5)
\* and the same score when the fruit is not at (6,5), and gives the four cells
\* (6,5),(5,5),(4,5),(3,5) and the score raised by the reward when it is.
C21_TenByTen ==
    /\ [](pc = "start" =>
            body = <<Pt(5, 5), Pt(4, 5), Pt(3, 5)>> /\ dir = "Right" /\ score = 0)
    /\ [][(Ticked /\ body = <<Pt(5, 5), Pt(4, 5), Pt(3, 5)>>) =>
            IF fruit # Pt(6, 5)
            THEN /\ body' = <<Pt(6, 5), Pt(5, 5), Pt(4, 5)>>
                 /\ Len(body') = 3 /\ score' = score
            ELSE /\ body' = <<Pt(6, 5), Pt(5, 5), Pt(4, 5), Pt(3, 5)>>
                 /\ Len(body') = 4 /\ score' = score + RewardNc]_vars

\* The first tick on the 10x10 board has eaten the fruit at (6,5).
C21_Witness ==
    /\ width = 10 /\ height = 10
    /\ last.op = "update" /\ last.branch = "eat" /\ last.next = Pt(6, 5)
    /\ Len(body) = 4 /\ score = 10

----------------------------------------------------------------------------
(* The shape of the snake and the place of the fruit *)

\* p and q are neighbours on the grid: one apart on one axis, level on the other.
GridAdjacent(p, q) ==
    \/ (p.x = q.x /\ (p.y - q.y = 1 \/ q.y - p.y = 1))
    \/ (p.y = q.y /\ (p.x - q.x = 1 \/ q.x - p.x = 1))

\* C22: in every state of the game the body is non-empty and each segment is
\* grid-adjacent to the one behind it.
C22_BodyConnected ==
    /\ Len(body) >= 1
    /\ \A i \in 1..(Len(body) - 1) : GridAdjacent(body[i], body[i + 1])

\* A snake of five segments that has turned twice: head and tail differ on
\* both axes.
C22_Witness ==
    /\ Len(body) = 5
    /\ body[1].x # body[5].x /\ body[1].y # body[5].y
    /\ last.op = "update" /\ last.branch = "move"

\* C28: in every state of the game no two segments of the snake are on the
\* same cell.
C28_SegmentsDistinct ==
    \A i, j \in 1..Len(body) : i # j => body[i] # body[j]

\* A tick has coiled a snake of five segments: its head lies next to its
\* fourth segment, which the heading points away from.
C28_Witness ==
    /\ Len(body) = 5 /\ last.op = "update" /\ last.branch = "move"
    /\ GridAdjacent(body[1], body[4])
    /\ StepFrom(body[1], dir) \notin Cells(body)

\* C29: on a board at least 6 wide and 3 high every segment of the snake is
\* strictly inside the wall ring, in every state of the game, a finished run
\* included.
C29_SegmentsInsideRing ==
    (width >= 6 /\ height >= 3) => \A i \in 1..Len(body) : InsideRing(body[i])

\* A run has ended on the right wall: the head is on the last column inside it.
C29_Witness ==
    /\ over /\ last.op = "update" /\ last.branch = "wall"
    /\ body[1].x = width - 2 /\ last.next.x = width - 1

\* C27: in every state of the game (after the constructor, after every reset
\* and every respawn, the fallback included) the fruit is strictly inside the
\* wall ring.
C27_FruitInsideRing ==
    (width >= 3 /\ height >= 3) => InsideRing(fruit)

\* A fruit has been eaten and respawn has fallen back to (1,1).
C27_Witness ==
    /\ last.op = "update" /\ last.branch = "eat"
    /\ fellBack /\ fruit = Pt(1, 1)

\* C30: in every state of the Notcurses game the body has 3 + score / 10
\* segments and the score is a multiple of 10; in the console game the body
\* has 3 + score segments.
C30_LengthTiedToScore ==
    /\ variant = "nc" => (score % 10 = 0 /\ Len(body) = 3 + score \div 10)
    /\ variant = "console" => Len(body) = 3 + score

\* A run of the Notcurses game that started without a high score has just
\* eaten its second fruit.
C30_Witness ==
    /\ variant = "nc" /\ score = 20 /\ Len(body) = 5
    /\ highScore = 20 /\ last.op = "update" /\ last.branch = "eat"
    /\ hsFile = MissingFile

----------------------------------------------------------------------------
(* Quitting, and the dialogs' state *)

\* C23 as stated: in the Notcurses game no step clears exitRequested once it
\* is set, a restarting confirm included, and the frame that finds it set at
\* its end leaves the loop.
C23_QuitNeverCancelled ==
    /\ [][(variant = "nc" /\ exitRequested) => exitRequested']_vars
    /\ [][(variant = "nc" /\ pc = "tick" /\ exitRequested) => pc' = "done"]_vars

\* C23: in the Notcurses game exitRequested, once set, stays set across every
\* step whose handler does not run reset(); reset() clears it; and a frame
\* that reaches its end with exitRequested set leaves the loop.
C23_QuitStandsUnlessReset ==
    /\ [][(variant = "nc" /\ exitRequested /\ ~ResetRan) => exitRequested']_vars
    /\ [][(variant = "nc" /\ ResetRan) => ~exitRequested']_vars
    /\ [][(variant = "nc" /\ pc = "tick" /\ exitRequested) => pc' = "done"]_vars

\* The loop has ended on a quit asked for while the pause dialog was open with
\* Restart selected.
C23_Witness ==
    /\ variant = "nc" /\ pc = "done" /\ exitRequested
    /\ last.op = "no update"
    /\ paused /\ dialogType = "Pause" /\ dialogIndex = 1

\* C24: in every state of the Notcurses game, the top of each frame among
\* them, dialogOpen holds iff dialogType is not None, paused iff the Pause
\* dialog is open, over iff the GameOver dialog is open, and paused and over
\* never hold together.
C24_ModalFlagsConsistent ==
    variant = "nc" =>
       /\ dialogOpen <=> dialogType # "None"
       /\ paused <=> (dialogOpen /\ dialogType = "Pause")
       /\ over <=> (dialogOpen /\ dialogType = "GameOver")
       /\ ~(paused /\ over)

\* The top of the frame after the tick that ended the run.
C24_Witness ==
    /\ variant = "nc" /\ pc = "input" /\ last.op = "update"
    /\ over /\ dialogOpen /\ dialogType = "GameOver" /\ ~paused

\* The last entry of the dialog that is open in g.
LastOption(g) == IF g.dialogType = "Pause" THEN 2 ELSE 1

\* C25: the selection is within 0..2 while the Pause dialog is open and
\* within 0..1 while the GameOver dialog is open; a step that opens a dialog
\* leaves it at 0; Up and Left go one entry back and from 0 to the last entry,
\* Down and Right one entry on and from the last entry to 0.
C25_DialogIndexInRange ==
    /\ []((variant = "nc" /\ dialogOpen) =>
            /\ dialogType \in {"Pause", "GameOver"}
            /\ dialogIndex \in 0..LastOption(G))
    /\ [][(variant = "nc" /\ ~dialogOpen /\ dialogOpen') => dialogIndex' = 0]_vars
    /\ []((variant = "nc" /\ pc = "input" /\ dialogOpen) =>
            /\ \A key \in {"Up", "Left"} : \A g \in NcKey(width, height, G, key) :
                  g.dialogIndex = IF dialogIndex = 0 THEN LastOption(G)
                                  ELSE dialogIndex - 1
            /\ \A key \in {"Down", "Right"} : \A g \in NcKey(width, height, G, key) :
                  g.dialogIndex = IF dialogIndex = LastOption(G) THEN 0
                                  ELSE dialogIndex + 1)

\* A key has left the selection of the game-over dialog on its last entry.
C25_Witness ==
    /\ variant = "nc" /\ dialogOpen /\ dialogType = "GameOver"
    /\ dialogIndex = 1 /\ ~exitRequested
    /\ last.op = "key" /\ last.branch = "dialog"

\* The keys that confirm a dialog's selection.
ConfirmKeys == {"space", "enter"}

\* C26: with the run over, Space or Enter on Restart gives a fresh run (over
\* cleared, score 0, the start snake, the dialog closed); q, and Space or
\* Enter on Quit, request the exit; every other key leaves over, the score,
\* the snake and the fruit as they are and requests nothing.
C26_WaysOutOfGameOver ==
    (variant = "nc" /\ pc = "input" /\ over) =>
       \A key \in Keys : \A g \in NcKey(width, height, G, key) :
          IF key \in ConfirmKeys /\ dialogIndex = 0
          THEN /\ ~g.over /\ g.score = 0 /\ ~g.dialogOpen
               /\ g.body = NewSnake(width \div 2, height \div 2, StartLen)
               /\ g.dir = "Right"
          ELSE /\ g.over /\ g.score = score /\ g.body = body /\ g.dir = dir
               /\ g.fruit = fruit
               /\ g.exitRequested =
                     (exitRequested \/ key = "q" \/ (key \in ConfirmKeys /\ dialogIndex = 1))

\* A key handled in the game-over dialog has asked for the exit, Quit being
\* selected.
C26_Witness ==
    /\ variant = "nc" /\ over /\ dialogType = "GameOver" /\ dialogIndex = 1
    /\ exitRequested /\ last.op = "key" /\ last.branch = "dialog"

----------------------------------------------------------------------------
(* The high score against the score *)

\* The larger of two numbers.
Larger(a, b) == IF a >= b THEN a ELSE b

\* C31: in the Notcurses game, the loaded high score being non-negative, the
\* high score is never below the score, and it is the maximum of the loaded
\* value and the scores reached so far: it starts as the loaded value, and
\* every step leaves it at the larger of what it was and the score the step
\* ends with.
C31_HighScoreIsMaximum ==
    /\ []((variant = "nc" /\ pc = "start") =>
            highScore = LoadHighScore(hsFile, 0) /\ score = 0)
    /\ []((variant = "nc" /\ pc # "exited" /\ LoadHighScore(hsFile, 0) >= 0) =>
            highScore >= score /\ highScore >= LoadHighScore(hsFile, 0))
    /\ [][variant = "nc" => highScore' = Larger(highScore, score')]_vars

\* The score of a run of the Notcurses game has just passed the 10 that
\* highscore.txt held.
C31_Witness ==
    /\ variant = "nc" /\ hsFile = FileOf(<<"1", "0", "\n">>)
    /\ last.op = "update" /\ last.branch = "eat"
    /\ score = 20 /\ highScore = 20

----------------------------------------------------------------------------
(* SpecNoInput: the Notcurses game left alone, restarted when a run is over *)

NoInputBoards == Boards \cup {TenBoard, <<9, 5>>}

\* Game::Game of game.cpp on each of the boards.
InitNoInput ==
    /\ variant = "nc"
    /\ \E b \in NoInputBoards : width = b[1] /\ height = b[2]
    /\ hsFile \in HighScoreFiles
    /\ body = NewSnake(width \div 2, height \div 2, StartLen)
    /\ dir = "Right"
    /\ \E r \in RespawnOutcomes(width, height, Cells(body)) :
          fruit = r.pos /\ fellBack = r.exhausted
    /\ score = 0
    /\ highScore = LoadHighScore(hsFile, 0)
    /\ over = FALSE
    /\ paused = FALSE
    /\ exitRequested = FALSE
    /\ dialogOpen = FALSE
    /\ dialogType = "None"
    /\ dialogIndex = 0
    /\ pc = "start"
    /\ tries = 0
    /\ occupied = {}
    /\ last = Did("construct", "none", NoPt, "none")

\* The only key ever pressed: Enter, the game-over dialog standing on Restart.
NcRestartKey ==
    /\ variant = "nc" /\ pc = "input"
    /\ over /\ dialogOpen /\ dialogIndex = 0
    /\ \E g \in NcKey(width, height, G, "enter") :
          /\ SetG(g)
          /\ last' = Did("key", IF g.resetRan THEN "reset" ELSE "none", NoPt, "dialog")
    /\ UNCHANGED <<variant, width, height, hsFile, pc, tries, occupied>>

NextNoInput ==
    \/ NcRunStart
    \/ NcRestartKey
    \/ NcEndInput
    \/ NcTick
    \/ NcNoTick
    \/ Shutdown

SpecNoInput == InitNoInput /\ [][NextNoInput]_vars

\* The number of the tick that is taken with the head where it is: ticks are
\* counted from the constructor or the last reset, which put the head on
\* column width/2, and every tick that does not end the run moves it one
\* column to the right.
TickNumber == body[1].x - width \div 2 + 1

\* C32: no key pressed since the constructor or a reset and no pause, on a
\* board at least 6 wide: the run starts with the head on column width/2
\* heading Right, every tick that leaves over false moves the head one column
\* right (a fruit eaten or not), and over is true after tick number
\* width - 1 - width/2 and false after every earlier one.
C32_RunEndsAtRightWall ==
    /\ []((pc = "start" /\ width >= 6) =>
            body[1] = Pt(width \div 2, height \div 2) /\ dir = "Right" /\ ~over)
    /\ [][(ResetRan /\ width >= 6) =>
            body'[1] = Pt(width \div 2, height \div 2) /\ dir' = "Right" /\ ~over']_vars
    /\ [][(Ticked /\ width >= 6) =>
            /\ ~over
            /\ TickNumber \in 1..(width - 1 - width \div 2)
            /\ over' <=> (TickNumber = width - 1 - width \div 2)
            /\ ~over' => (body'[1] = Pt(body[1].x + 1, body[1].y) /\ dir' = dir)]_vars

\* On the 9x5 board a restarted run has ended on its fourth tick, having
\* eaten on the way.
C32_Witness ==
    /\ width = 9 /\ height = 5 /\ over
    /\ last.op = "update" /\ last.branch = "wall"
    /\ body[1].x = 7 /\ Len(body) = 4 /\ highScore = 20
    /\ hsFile = MissingFile

----------------------------------------------------------------------------
(* The two builds' update() side by side *)

\* What a set of outcomes of update() says about field f of each.
Outcomes(gs, f) == {g[f] : g \in gs}

\* C33: from the board, body, heading and fruit of any state of the game, the
\* update() of snake.cpp and the update() of game.cpp end with the same over
\* flag and the same bodies; when they eat they can place the fruit on the
\* same cells, the cells of the body after the move being the body before it
\* and next; and the score goes up by 1 in the one and by 10 in the other, or
\* in neither.
C33_UpdatesAgree ==
    LET nc == NcUpdate(width, height, G)
        console == ConsoleUpdate(width, height, G)
        next == NextHead(body, dir)
        eats == Branch(width, height, G) = "eat"
    IN (variant \in {"nc", "console"} /\ Len(body) >= 1) =>
          /\ Outcomes(nc, "over") = Outcomes(console, "over")
          /\ Outcomes(nc, "body") = Outcomes(console, "body")
          /\ Outcomes(nc, "fruit") = Outcomes(console, "fruit")
          /\ {<<g.fruit, g.fellBack>> : g \in nc}
                = {<<g.fruit, g.fellBack>> : g \in console}
          /\ eats => \A g \in console : Cells(g.body) = Cells(body) \cup {next}
          /\ Outcomes(nc, "score") = {IF eats THEN score + 10 ELSE score}
          /\ Outcomes(console, "score") = {IF eats THEN score + 1 ELSE score}

\* The console game has eaten its second fruit with the tick just taken.
C33_Witness ==
    /\ variant = "console" /\ last.op = "update" /\ last.branch = "eat"
    /\ score = 2 /\ Len(body) = 5 /\ ~over

============================================================================
